---- MODULE Spec2Model ----
(***************************************************************************)
(* A model of ipython_pg: the ${...} template substitution of              *)
(* pgMagics._python_tpl / pgMagics.query (ipython_extension.py), the       *)
(* green-mode wait callback wait_select (green_mode.py) and the commands   *)
(* that drive the psycopg2 connection.                                     *)
(*                                                                         *)
(* Texts are sequences of one-character strings, so that the regular       *)
(* expression, str.replace and SQL.format are modelled character by        *)
(* character.  Python values are records [t, s, items]:                    *)
(*   t = "str"  : s holds the characters                                    *)
(*   t = "int"  : s holds the decimal digits                                *)
(*   t = "list" : items holds the elements, records [t, s]                  *)
(***************************************************************************)
EXTENDS Naturals, Integers, Sequences, FiniteSets, TLC

VARIABLES
    \* ---- substitution harness: one text, one variable scope, the results
    txt,        \* the SQL text handed to the substitution
    scope,      \* the shell's variables: [x |-> value, y |-> value]
    tpc,        \* "init" | "tpl" (after _python_tpl) | "subst" (after query's step) | "again";
                \* in the shell: "idle" | "typed" (a query is about to run) | "done"
    res,        \* result of the first application
    res2,       \* result of applying query's substitution step to res.text
    \* ---- wait_select
    wpc,        \* "poll" | "wait_read" | "wait_write" | "cancel" | "returned" | "raised"
    polls,      \* the states poll() has reported so far, oldest first
    waits,      \* the readiness waits made so far: "read" / "write"
    ncancel,    \* conn.cancel() calls so far
    intr,       \* KeyboardInterrupts so far, by place: [wait, poll, cancel]
    lastev,     \* what the last step of wait_select was
    werr,       \* what wait_select raised to its caller ("" while none)
    \* ---- the pgMagics instance and its connection
    dbconn,     \* self.dbconn: "None" | "open"
    auto_commit,\* self.auto_commit
    opts,       \* the silent and propagate arguments of the query about to run
    outcome,    \* how the last command ended: "none" | "returned" | "raised"
    err,        \* the error the last command raised, or "written: ..." for one it
                \* only wrote to the shell's error stream ("" when none)
    calls,      \* the driver calls the last command made, in order
    green_mode, \* self.green_mode
    wait_callback, \* the process-wide wait callback of psycopg2:
                \* "None" | "wait_select" | "foreign" (set by someone else)
    txn,        \* the transaction of the connection: "idle" | "intrans" | "inerror"
    cmd,        \* the command that runs or has just run ("none" at the prompt)
    rowcount,   \* what the statement of the last query() answered ("none": nothing)
    arg,        \* the arguments of the command, see NoArg
    ret,        \* what the command returned, see NoRet
    _preped_stmts, \* self._preped_stmts, a list of names
    session,    \* the statements prepared in the session of the connection
    bound       \* the names bound to a prepared-statement callback in the shell

tplvars  == <<txt, scope, tpc, res, res2>>
waitvars == <<wpc, polls, waits, ncancel, intr, lastev, werr>>
cmdvars  == <<dbconn, auto_commit, opts, outcome, err, calls, green_mode,
              wait_callback, txn, cmd, rowcount, arg, ret, _preped_stmts,
              session, bound>>
vars     == <<tplvars, waitvars, cmdvars>>

\* cmdvars without cmd
cmdvars_but_cmd == <<dbconn, auto_commit, opts, outcome, err, calls, green_mode,
                     wait_callback, txn, rowcount, arg, ret, _preped_stmts,
                     session, bound>>

-----------------------------------------------------------------------------
(* Bounds *)

\* A text is a concatenation of at most MaxPieces pieces of Pieces.
MaxPieces == 3

-----------------------------------------------------------------------------
(* Python values *)

StrV(s)   == [t |-> "str",  s |-> s,    items |-> <<>>]
IntV(d)   == [t |-> "int",  s |-> d,    items |-> <<>>]
ListV(it) == [t |-> "list", s |-> <<>>, items |-> it]
Atom(t, s) == [t |-> t, s |-> s]

\* The values a shell variable takes in the model: plain and dotted strings,
\* a string holding the characters %s, an integer, a list of strings and a
\* list of integers.
ValA     == StrV(<<"a">>)
ValDot   == StrV(<<"s", ".", "t">>)
ValPct   == StrV(<<"o", "'", "%", "s">>)
ValInt   == IntV(<<"7">>)
ValList  == ListV(<<Atom("str", <<"s">>), Atom("str", <<"t">>)>>)
ValListI == ListV(<<Atom("int", <<"1">>)>>)
ValB     == StrV(<<"b">>)

XValues == {ValA, ValDot, ValPct, ValInt, ValList, ValListI}
YValues == {ValB, ValInt}
Scopes  == [x : XValues, y : YValues]

-----------------------------------------------------------------------------
(* Texts *)

PieceX     == <<"$", "{", "x", "}">>
PieceY     == <<"$", "{", "y", "}">>
PieceXs    == <<"$", "{", "x", ":", "s", "}">>
PieceXi    == <<"$", "{", "x", ":", "i", "}">>
PieceXq    == <<"$", "{", "x", ":", "q", "}">>
PieceSlice == <<"$", "{", "d", "[", "1", ":", "2", "]", "}">>
PieceZ     == <<"$", "{", "z", "}">>
PieceOpen  == <<"$", "{">>
PieceDollar == <<"$">>
PiecePlain == <<"a">>

Pieces == {PieceX, PieceY, PieceXs, PieceXi, PieceXq, PieceSlice, PieceZ,
           PieceOpen, PieceDollar, PiecePlain}

RECURSIVE TextsOf(_)
TextsOf(n) ==
    IF n = 0 THEN {<<>>}
    ELSE LET T == TextsOf(n - 1) IN T \cup {t \o p : t \in T, p \in Pieces}

Texts == TextsOf(MaxPieces)

\* pat occurs in t at index i
IsAt(t, pat, i) ==
    /\ i + Len(pat) - 1 <= Len(t)
    /\ \A k \in 1..Len(pat) : t[i + k - 1] = pat[k]

Contains(t, pat) == \E i \in 1..Len(t) : IsAt(t, pat, i)

-----------------------------------------------------------------------------
\* The pattern rxp of _python_tpl and rxp.findall.  The pattern reads: not
\* preceded by "$"; then "$" "{"; then the longest run of characters other
\* than "}" and ":" (the expression); then optionally ":" and one of the
\* letters s, i (the format); then "}".

\* ExprEnd with an expression class that excludes only "}"
RECURSIVE ExprEnd_ColonAllowed(_, _)
ExprEnd_ColonAllowed(t, i) ==
    IF i > Len(t) THEN i
    ELSE IF t[i] = "}" THEN i
    ELSE ExprEnd_ColonAllowed(t, i + 1)

\* first index >= i whose character is "}" or ":" (Len(t)+1 when none):
\* where the greedy run of expression characters stops
RECURSIVE ExprEnd(_, _)
ExprEnd(t, i) ==
    IF i > Len(t) THEN i
    ELSE IF t[i] \in {"}", ":"} THEN i
    ELSE ExprEnd(t, i + 1)

NoMatch == [ok |-> FALSE, expr |-> <<>>, fmt |-> "", end |-> 0]

\* the match of rxp that starts at index i of t, if there is one
MatchAt(t, i) ==
    LET n == Len(t)
        starts == /\ i + 1 <= n
                  /\ t[i] = "$"
                  /\ t[i + 1] = "{"
                  /\ (i = 1 \/ t[i - 1] # "$")
        e == ExprEnd(t, i + 2)
    IN  IF ~starts \/ e > n THEN NoMatch
        ELSE IF /\ t[e] = ":"
                /\ e + 2 <= n
                /\ t[e + 1] \in {"s", "i"}
                /\ t[e + 2] = "}"
             THEN [ok |-> TRUE, expr |-> SubSeq(t, i + 2, e - 1),
                   fmt |-> t[e + 1], end |-> e + 2]
        ELSE IF t[e] = "}"
             THEN [ok |-> TRUE, expr |-> SubSeq(t, i + 2, e - 1),
                   fmt |-> "", end |-> e]
        ELSE NoMatch

\* rxp.findall(txt): the non-overlapping matches, left to right, each with
\* the index it starts at
RECURSIVE FindAllFrom(_, _)
FindAllFrom(t, i) ==
    IF i > Len(t) THEN <<>>
    ELSE LET m == MatchAt(t, i)
         IN  IF m.ok
             THEN <<[expr |-> m.expr, fmt |-> m.fmt, at |-> i, end |-> m.end]>>
                  \o FindAllFrom(t, m.end + 1)
             ELSE FindAllFrom(t, i + 1)

FindAll(t) == FindAllFrom(t, 1)

-----------------------------------------------------------------------------
(* str.replace *)

RECURSIVE ReplaceFrom(_, _, _, _)
ReplaceFrom(t, pat, rep, i) ==
    IF i > Len(t) THEN <<>>
    ELSE IF IsAt(t, pat, i)
         THEN rep \o ReplaceFrom(t, pat, rep, i + Len(pat))
         ELSE <<t[i]>> \o ReplaceFrom(t, pat, rep, i + 1)

\* txt.replace(pat, rep): every non-overlapping occurrence, left to right
Replace(t, pat, rep) == ReplaceFrom(t, pat, rep, 1)

-----------------------------------------------------------------------------
(* psycopg2.sql: Literal, Identifier, SQL(".").join, as rendered by as_string *)

RECURSIVE DoubleChar(_, _)
\* s with every occurrence of the character c doubled
DoubleChar(s, c) ==
    IF s = <<>> THEN <<>>
    ELSE (IF Head(s) = c THEN <<c, c>> ELSE <<Head(s)>>) \o DoubleChar(Tail(s), c)

\* the quoted SQL string literal of a str
QuoteString(s) == <<"'">> \o DoubleChar(s, "'") \o <<"'">>

\* the quoted SQL identifier of a str
QuoteIdent(s) == <<"\"">> \o DoubleChar(s, "\"") \o <<"\"">>

RECURSIVE Join(_, _)
\* sep.join(parts)
Join(parts, sep) ==
    IF parts = <<>> THEN <<>>
    ELSE IF Len(parts) = 1 THEN parts[1]
    ELSE parts[1] \o sep \o Join(Tail(parts), sep)

RECURSIVE SplitFrom(_, _, _, _)
SplitFrom(s, c, i, cur) ==
    IF i > Len(s) THEN <<cur>>
    ELSE IF s[i] = c THEN <<cur>> \o SplitFrom(s, c, i + 1, <<>>)
    ELSE SplitFrom(s, c, i + 1, Append(cur, s[i]))

\* s.split(c)
Split(s, c) == SplitFrom(s, c, 1, <<>>)

AdaptAtom(a) == IF a.t = "str" THEN QuoteString(a.s) ELSE a.s

\* psycopg2.sql.Literal(v), as the text as_string gives: the adapted value.
\* No character of the value other than the quote is escaped.
Literal(v) ==
    IF v.t = "str" THEN QuoteString(v.s)
    ELSE IF v.t = "int" THEN v.s
    ELSE <<"A", "R", "R", "A", "Y", "[">>
         \o Join([k \in 1..Len(v.items) |-> AdaptAtom(v.items[k])], <<",">>)
         \o <<"]">>

\* IdentParts without the split of a qualified name
IdentParts_NoSplit(v) ==
    IF v.t = "str" THEN [ok |-> TRUE, parts |-> <<v.s>>]
    ELSE IF v.t = "list" /\ \A k \in 1..Len(v.items) : v.items[k].t = "str"
         THEN [ok |-> TRUE, parts |-> [k \in 1..Len(v.items) |-> v.items[k].s]]
    ELSE [ok |-> FALSE, parts |-> <<>>]

\* lines 263-266: the parts of the identifier, or a TypeError.  A value with
\* a split attribute is split at the dots; anything else is iterated, and
\* psycopg2.sql.Identifier accepts only a str.
IdentParts(v) ==
    IF v.t = "str" THEN [ok |-> TRUE, parts |-> Split(v.s, ".")]
    ELSE IF v.t = "list" /\ \A k \in 1..Len(v.items) : v.items[k].t = "str"
         THEN [ok |-> TRUE, parts |-> [k \in 1..Len(v.items) |-> v.items[k].s]]
    ELSE [ok |-> FALSE, parts |-> <<>>]

\* SQL(".").join(Identifier(e) for e in parts), as the text as_string gives
IdentifierText(parts) ==
    Join([k \in 1..Len(parts) |-> QuoteIdent(parts[k])], <<".">>)

-----------------------------------------------------------------------------
\* psycopg2.sql.SQL(txt).format of the f_args: string.Formatter().parse

Digits == {"0", "1", "2", "3", "4", "5", "6", "7", "8", "9"}

DigitVal(c) == CHOOSE n \in 0..9 : <<"0", "1", "2", "3", "4", "5", "6", "7", "8", "9">>[n + 1] = c

\* int(name) of a text of digits
RECURSIVE ToNat(_)
ToNat(ds) ==
    IF ds = <<>> THEN 0
    ELSE 10 * ToNat(SubSeq(ds, 1, Len(ds) - 1)) + DigitVal(ds[Len(ds)])

\* index of the "}" that closes the replacement field opened just before
\* index i (0 when the text ends first); depth counts nested "{"
RECURSIVE FieldEnd(_, _, _)
FieldEnd(t, i, depth) ==
    IF i > Len(t) THEN 0
    ELSE IF t[i] = "{" THEN FieldEnd(t, i + 1, depth + 1)
    ELSE IF t[i] = "}" THEN (IF depth = 0 THEN i ELSE FieldEnd(t, i + 1, depth - 1))
    ELSE FieldEnd(t, i + 1, depth)

\* length of the field name: up to the first ":" or "!" outside [...]
RECURSIVE NameLen(_, _, _)
NameLen(fld, i, inbr) ==
    IF i > Len(fld) THEN Len(fld)
    ELSE IF inbr THEN NameLen(fld, i + 1, fld[i] # "]")
    ELSE IF fld[i] = "[" THEN NameLen(fld, i + 1, TRUE)
    ELSE IF fld[i] \in {":", "!"} THEN i - 1
    ELSE NameLen(fld, i + 1, FALSE)

FmtFail(e) == [ok |-> FALSE, err |-> e, text |-> <<>>]

\* auto: the next automatic field number, or -1 after a manual one
RECURSIVE FormatFrom(_, _, _, _, _)
FormatFrom(t, args, i, auto, out) ==
    IF i > Len(t) THEN [ok |-> TRUE, err |-> "", text |-> out]
    ELSE IF t[i] = "{" /\ i < Len(t) /\ t[i + 1] = "{"
         THEN FormatFrom(t, args, i + 2, auto, Append(out, "{"))
    ELSE IF t[i] = "}" /\ i < Len(t) /\ t[i + 1] = "}"
         THEN FormatFrom(t, args, i + 2, auto, Append(out, "}"))
    ELSE IF t[i] = "}" THEN FmtFail("ValueError")
    ELSE IF t[i] = "{"
         THEN LET j == FieldEnd(t, i + 1, 0)
                  fld == SubSeq(t, i + 1, j - 1)
                  nl == NameLen(fld, 1, FALSE)
                  name == SubSeq(fld, 1, nl)
                  rest == SubSeq(fld, nl + 1, Len(fld))
              IN  IF j = 0 THEN FmtFail("ValueError")
                  ELSE IF Len(rest) > 1 \/ (rest # <<>> /\ rest[1] = "!")
                       \* a format specification or a conversion
                       THEN FmtFail("ValueError")
                  ELSE IF name = <<>>
                       THEN IF auto = -1 THEN FmtFail("ValueError")
                            ELSE IF auto + 1 > Len(args) THEN FmtFail("IndexError")
                            ELSE FormatFrom(t, args, j + 1, auto + 1,
                                            out \o args[auto + 1])
                  ELSE IF \A k \in 1..Len(name) : name[k] \in Digits
                       THEN IF auto > 0 THEN FmtFail("ValueError")
                            ELSE IF ToNat(name) + 1 > Len(args)
                                 THEN FmtFail("IndexError")
                            ELSE FormatFrom(t, args, j + 1, -1,
                                            out \o args[ToNat(name) + 1])
                  ELSE FmtFail("KeyError")
    ELSE FormatFrom(t, args, i + 1, auto, Append(out, t[i]))

SQLFormat(t, args) == FormatFrom(t, args, 1, 0, <<>>)

-----------------------------------------------------------------------------
(* pgMagics._python_tpl *)

\* self.shell.ev(expr): the names x and y are bound; any other expression
\* text of the model (z, the empty text, a text with "$" or "{") raises
Ev(sc, expr) ==
    IF expr = <<"x">> THEN [ok |-> TRUE, v |-> sc.x]
    ELSE IF expr = <<"y">> THEN [ok |-> TRUE, v |-> sc.y]
    ELSE [ok |-> FALSE, v |-> ValA]

\* "${%s}" % expr, with expr rejoined to its format at line 271
PlaceholderText(expr, fmt) ==
    <<"$", "{">> \o expr \o (IF fmt = "" THEN <<>> ELSE <<":", fmt>>) \o <<"}">>

\* A result: ok with the rewritten text (as the string the driver gets) and
\* the bound values, or the error raised; nev counts the calls of shell.ev.
TplFail(e, n) == [ok |-> FALSE, err |-> e, text |-> <<>>, args |-> <<>>, nev |-> n]

\* the replacement text and argument lists of one placeholder (lines 258-270)
ParamRep == <<"%", "s">>
FieldRep == <<"{", "}">>

\* the loop of lines 256-272 from the k-th match on, then line 274
RECURSIVE TplLoop(_, _, _, _, _, _)
TplLoop(ms, k, t, q_args, f_args, sc) ==
    IF k > Len(ms)
    THEN LET r == SQLFormat(t, f_args)
         IN  IF r.ok
             THEN [ok |-> TRUE, err |-> "", text |-> r.text, args |-> q_args,
                   nev |-> Len(ms)]
             ELSE TplFail(r.err, Len(ms))
    ELSE LET m == ms[k]
             e == Ev(sc, m.expr)
             pat == PlaceholderText(m.expr, m.fmt)
         IN  IF ~e.ok THEN TplFail("EvalError", k)
             ELSE IF m.fmt = "s"
                  THEN TplLoop(ms, k + 1, Replace(t, pat, FieldRep), q_args,
                               Append(f_args, Literal(e.v)), sc)
             ELSE IF m.fmt = "i"
                  THEN LET p == IdentParts(e.v)
                       IN  IF ~p.ok THEN TplFail("TypeError", k)
                           ELSE TplLoop(ms, k + 1, Replace(t, pat, FieldRep), q_args,
                                        Append(f_args, IdentifierText(p.parts)), sc)
             ELSE TplLoop(ms, k + 1, Replace(t, pat, ParamRep),
                          Append(q_args, e.v), f_args, sc)

_python_tpl(sql, sc) == TplLoop(FindAll(sql), 1, sql, <<>>, <<>>, sc)

\* lines 285-289 of query(): the substitution step of a str
QuerySubst(sql, sc) ==
    IF Contains(sql, <<"$", "{">>)
    THEN _python_tpl(sql, sc)
    ELSE [ok |-> TRUE, err |-> "", text |-> sql, args |-> <<>>, nev |-> 0]

-----------------------------------------------------------------------------
(* The substitution applied to every text and scope of the bounds *)

NoRes == [ok |-> FALSE, err |-> "none", text |-> <<>>, args |-> <<>>, nev |-> 0]

\* wait_select before its first poll
WaitStart ==
    /\ wpc = "poll"
    /\ polls = <<>>
    /\ waits = <<>>
    /\ ncancel = 0
    /\ intr = [wait |-> 0, poll |-> 0, cancel |-> 0]
    /\ lastev = "start"
    /\ werr = ""

\* a fresh pgMagics instance (lines 98-110), no command run yet
NoOpts == [silent |-> FALSE, propagate |-> FALSE]

\* the arguments a command is given; each command uses its own:
\*   pg_copy: the source is a DataFrame or not, its number of rows, the
\*            --chunksize option (0: not given), and what the driver does:
\*            the copy call that fails (0: none) and whether commit succeeds
\*   pg_prepare: the name, whether the server accepts the statement text,
\*            the highest $n of the text (0: none)
\*   a prepared-statement callback: its name and the number of values given
\*   get_postgis_version / has_postgis: whether PostGIS is available and the
\*            text PostGIS_Version() answers
NoArg ==
    [dataframe |-> FALSE, nrows |-> 0, chunksize |-> 0, failat |-> 0, commits |-> FALSE,
     name |-> 0, valid |-> FALSE, nargs |-> 0, given |-> 0,
     available |-> FALSE, ver |-> <<>>]

\* what a command returns: "none" (nothing, or it raised), "cursor", "False",
\* "True", or "tuple" with its integers
NoRet == [kind |-> "none", ints |-> <<>>]

\* no command under way
NoCommand ==
    /\ opts = NoOpts
    /\ outcome = "none"
    /\ err = ""
    /\ calls = <<>>
    /\ cmd = "none"
    /\ rowcount = "none"
    /\ arg = NoArg
    /\ ret = NoRet

\* lines 109-110: nothing prepared yet
NothingPrepared ==
    /\ _preped_stmts = <<>>
    /\ session = {}
    /\ bound = {}

CmdStart ==
    /\ dbconn = "None"
    /\ auto_commit = TRUE
    /\ green_mode = TRUE
    /\ wait_callback = "None"
    /\ txn = "idle"
    /\ NoCommand
    /\ NothingPrepared

\* no substitution under way
TplIdle ==
    /\ txt = <<>>
    /\ scope = [x |-> ValA, y |-> ValB]
    /\ tpc = "idle"
    /\ res = NoRes
    /\ res2 = NoRes

InitTpl ==
    /\ txt \in Texts
    /\ scope \in Scopes
    /\ tpc = "init"
    /\ res = NoRes
    /\ res2 = NoRes
    /\ WaitStart
    /\ CmdStart

\* a direct call of _python_tpl(txt)
CallPythonTpl ==
    /\ tpc = "init"
    /\ res' = _python_tpl(txt, scope)
    /\ tpc' = "tpl"
    /\ UNCHANGED <<txt, scope, res2, waitvars, cmdvars>>

\* the substitution step of query(txt)
CallQuerySubst ==
    /\ tpc = "init"
    /\ res' = QuerySubst(txt, scope)
    /\ tpc' = "subst"
    /\ UNCHANGED <<txt, scope, res2, waitvars, cmdvars>>

\* the substitution step of query() on the text a first query() produced
CallQuerySubstAgain ==
    /\ tpc = "subst"
    /\ res.ok
    /\ res2' = QuerySubst(res.text, scope)
    /\ tpc' = "again"
    /\ UNCHANGED <<txt, scope, res, waitvars, cmdvars>>

NextTpl == CallPythonTpl \/ CallQuerySubst \/ CallQuerySubstAgain

SpecTpl == InitTpl /\ [][NextTpl]_vars

-----------------------------------------------------------------------------
(* The shell: commands on one pgMagics instance *)

\* A query text of the shell is a concatenation of at most MaxQueryPieces pieces.
MaxQueryPieces == 2

QueryTexts == TextsOf(MaxQueryPieces)

\* the scopes of the shell's queries
QueryScopes == [x : {ValDot, ValInt}, y : {ValB}]

\* what cursor.execute answers once the statement is sent: a row count or a
\* psycopg2.Error
ExecAnswers == {"rows-1", "rows0", "rows1", "error"}

\* the answers the server can give in the transaction state t: inside a
\* failed transaction every statement is answered with an error
AnswersIn(t) == IF t = "inerror" THEN {"error"} ELSE ExecAnswers

\* one call made on the driver: what was called, the process-wide wait
\* callback at that moment, for a copy_expert call the rows dta.iloc[lo:hi],
\* and for the calls of a query() of pg_prepare the statement it was for
Call(op, cb) == [op |-> op, cb |-> cb, lo |-> 0, hi |-> 0, stmt |-> ""]

CopyCall(op, cb, lo, hi) == [op |-> op, cb |-> cb, lo |-> lo, hi |-> hi, stmt |-> ""]

\* the calls ops of the query() for the statement stmt ("deallocate", "prepare")
QueryCalls(stmt, ops, cb) == [k \in 1..Len(ops) |-> [Call(ops[k], cb) EXCEPT !.stmt = stmt]]

\* the calls ops, all made under the wait callback cb
CallsOf(ops, cb) == [k \in 1..Len(ops) |-> Call(ops[k], cb)]

InitCmd ==
    /\ txt = <<>>
    /\ scope \in QueryScopes
    /\ tpc = "idle"
    /\ res = NoRes
    /\ res2 = NoRes
    /\ WaitStart
    /\ dbconn = "None"
    /\ auto_commit \in BOOLEAN
    /\ green_mode = TRUE
    /\ wait_callback = "None"
    /\ txn = "idle"
    /\ NoCommand
    /\ NothingPrepared

\* what a command leaves alone whatever it does: the shell's variables, the
\* wait_select of the other specification and the constructor's flags
Command(name, a) ==
    /\ tpc = "idle"
    /\ tpc' = "done"
    /\ cmd' = name
    /\ arg' = a
    /\ UNCHANGED <<scope, res2, waitvars, auto_commit, green_mode, opts>>

\* a command that runs no query()
NoQuery ==
    /\ rowcount' = "none"
    /\ UNCHANGED <<txt, res>>

\* the end of a command: how it ended, with which error, after which calls
Ended(how, e, cs) ==
    /\ outcome' = how
    /\ err' = e
    /\ calls' = cs

\* lines 125-127 of pg_connect: green_mode.activate() comes before anything
\* else and installs the monitor
ConnectCallback_OnlyWhenConnected(connected) ==
    IF green_mode /\ connected THEN "wait_select" ELSE wait_callback

ConnectCallback(connected) ==
    IF green_mode THEN "wait_select" ELSE wait_callback

\* pg_connect (lines 113-196): psycopg2.connect succeeds, or fails (also with
\* the password asked for) and leaves self.dbconn as it was.  On a new
\* connection the PostGIS integration (lines 180-196) is off or finds no
\* PostGIS (get_type_code rolls back and raises PostGISnotInstalled, which is
\* passed over), or it registers the types and line 194 then calls
\* postgis_integration.geo_types, which the module does not define.
PgConnect ==
    /\ Command("pg_connect", NoArg)
    /\ NoQuery
    /\ ret' = NoRet
    /\ \E connected \in BOOLEAN :
          /\ wait_callback' = ConnectCallback(connected)
          /\ IF ~connected
             THEN /\ Ended("returned", "", <<Call("connect failed", wait_callback')>>)
                  /\ UNCHANGED <<dbconn, txn, session>>
             ELSE /\ dbconn' = "open"
                  /\ session' = {}
                  /\ \E postgis \in {"off", "absent", "present"} :
                        IF postgis = "off"
                        THEN /\ txn' = "idle"
                             /\ Ended("returned", "", <<Call("connect", wait_callback')>>)
                        ELSE IF postgis = "absent"
                        THEN /\ txn' = "idle"
                             /\ Ended("returned", "",
                                      CallsOf(<<"connect", "cursor", "execute failed", "rollback">>,
                                              wait_callback'))
                        ELSE /\ txn' = "intrans"
                             /\ Ended("raised", "AttributeError",
                                      CallsOf(<<"connect", "cursor", "execute", "cursor", "execute">>,
                                              wait_callback'))
    /\ UNCHANGED <<_preped_stmts, bound>>

\* pg_disconnect (lines 199-203)
PgDisconnect ==
    /\ Command("pg_disconnect", NoArg)
    /\ NoQuery
    /\ ret' = NoRet
    /\ Ended("returned", "", IF dbconn = "open" THEN <<Call("close", wait_callback)>> ELSE <<>>)
    /\ dbconn' = "None"
    /\ txn' = "idle"
    /\ session' = {}
    /\ UNCHANGED <<wait_callback, _preped_stmts, bound>>

\* the user enters a command that runs query(sql, silent, propagate) with
\* the shell's variables as they are then
TypeQuery ==
    /\ tpc = "idle"
    /\ txt' \in QueryTexts
    /\ scope' \in QueryScopes
    /\ opts' \in [silent : BOOLEAN, propagate : BOOLEAN]
    /\ tpc' = "typed"
    /\ cmd' = "query"
    /\ UNCHANGED <<res, res2, waitvars, dbconn, auto_commit, outcome, err, calls,
                   green_mode, wait_callback, txn, rowcount, arg, ret,
                   _preped_stmts, session, bound>>

\* the command is over and the shell prompts again: what is kept from one
\* command to the next is the instance, the connection, the wait callback and
\* the shell's variables; the record of the command is dropped
ShellReturn ==
    /\ tpc = "done"
    /\ tpc' = "idle"
    /\ txt' = <<>>
    /\ res' = NoRes
    /\ opts' = NoOpts
    /\ outcome' = "none"
    /\ err' = ""
    /\ calls' = <<>>
    /\ cmd' = "none"
    /\ rowcount' = "none"
    /\ arg' = NoArg
    /\ ret' = NoRet
    /\ UNCHANGED <<scope, res2, waitvars, dbconn, auto_commit, green_mode,
                   wait_callback, txn, _preped_stmts, session, bound>>

\* cursor.execute(sql, args): the parameter markers the driver pairs with
\* the values: a "%" that is not part of "%%"
RECURSIVE MarkersFrom(_, _)
MarkersFrom(t, i) ==
    IF i > Len(t) THEN 0
    ELSE IF t[i] # "%" THEN MarkersFrom(t, i + 1)
    ELSE IF i < Len(t) /\ t[i + 1] = "%" THEN MarkersFrom(t, i + 2)
    ELSE 1 + MarkersFrom(t, i + 2)

MarkerCount(t) == MarkersFrom(t, 1)

\* the connection after the statement: its transaction state and the row
\* count the cursor reports
After(t, rc) ==
    /\ txn' = t
    /\ rowcount' = rc

\* Commits that does not look at auto_commit
Commits_WithoutAutoCommit(o, answer) == ~o.silent /\ answer = "rows-1"

\* cur_report (lines 239-248) commits when the row count is -1 and
\* auto_commit is set; query() calls it unless silent (lines 294-295)
Commits(o, answer) == ~o.silent /\ answer = "rows-1" /\ auto_commit

\* RolledBack that leaves the failed transaction as it is
RolledBack_NoRollback(ops) == ops

\* lines 296-298 of query(): the handler of a psycopg2.Error calls
\* self.dbconn.rollback() after the calls ops
RolledBack(ops) == Append(ops, "rollback")

\* lines 297-300 of query(): the error is written to the shell's error
\* stream, and raised again when propagate is set
Surfaced(o) == IF o.propagate THEN "psycopg2.Error" ELSE "written: psycopg2.Error"

\* lines 291-301 of query(): the statement sub.text with the values sub.args
\* under the options o.  pg_cursor raises the RuntimeError of _dbconn when
\* there is no connection.  execute raises before it sends anything when the
\* markers of the text and the values do not pair (IndexError: more markers;
\* TypeError: more values); neither is a psycopg2.Error, so both leave
\* query() as they are.
QueryRun(sub, o) ==
    LET cb == wait_callback
        raise == IF o.propagate THEN "raised" ELSE "returned"
        error == Surfaced(o)
    IN
    IF dbconn = "None"
    THEN Ended("raised", "RuntimeError", <<>>) /\ After(txn, "none")
    ELSE IF MarkerCount(sub.text) > Len(sub.args)
         THEN /\ Ended("raised", "IndexError", CallsOf(<<"cursor", "execute refused">>, cb))
              /\ After(txn, "none")
    ELSE IF MarkerCount(sub.text) < Len(sub.args)
         THEN /\ Ended("raised", "TypeError", CallsOf(<<"cursor", "execute refused">>, cb))
              /\ After(txn, "none")
    ELSE \E answer \in AnswersIn(txn) :
            IF answer = "error"
            THEN \* lines 296-300
                 /\ Ended(raise, error, CallsOf(RolledBack(<<"cursor", "execute failed">>), cb))
                 /\ After("idle", "none")
            ELSE IF Commits(o, answer)
                 THEN \* cur_report, lines 243-246: pg_commit
                      \E committed \in BOOLEAN :
                          IF committed
                          THEN /\ Ended("returned", "", CallsOf(<<"cursor", "execute", "commit">>, cb))
                               /\ After("idle", answer)
                          ELSE /\ Ended(raise, error,
                                        CallsOf(RolledBack(<<"cursor", "execute", "commit failed">>), cb))
                               /\ After("idle", answer)
            ELSE /\ Ended("returned", "", CallsOf(<<"cursor", "execute">>, cb))
                 /\ After("intrans", answer)

\* what a query() entered with TypeQuery leaves alone
QueryFrame ==
    /\ tpc = "typed"
    /\ tpc' = "done"
    /\ ret' = NoRet
    /\ UNCHANGED <<txt, scope, res2, waitvars, dbconn, auto_commit, opts,
                   green_mode, wait_callback, cmd, arg, _preped_stmts, session, bound>>

\* query() with the substitution done after the cursor is opened
Query_CursorBeforeSubst ==
    /\ QueryFrame
    /\ res' = QuerySubst(txt, scope)
    /\ IF dbconn = "None" THEN Ended("raised", "RuntimeError", <<>>) /\ After(txn, "none")
       ELSE IF ~res'.ok THEN Ended("raised", res'.err, <<Call("cursor", wait_callback)>>) /\ After(txn, "none")
       ELSE QueryRun(res', opts)

\* query() (lines 277-301): the substitution of lines 285-289 comes first and
\* its error leaves query() before the try statement
Query ==
    /\ QueryFrame
    /\ res' = QuerySubst(txt, scope)
    /\ IF ~res'.ok THEN Ended("raised", res'.err, <<>>) /\ After(txn, "none")
       ELSE QueryRun(res', opts)

Next == PgConnect \/ PgDisconnect \/ TypeQuery \/ Query \/ ShellReturn

Spec == InitCmd /\ [][Next]_vars

-----------------------------------------------------------------------------
(* The other commands of the instance *)

\* the rows of the DataFrames given to pg_copy
MaxRows == 3

\* the names given to pg_prepare are 1..MaxNames
MaxNames == 1

Names == 1..MaxNames

\* _dbconn (lines 205-208) with no connection: the RuntimeError
\* "need to connect first", before any call on the driver
NeedToConnect == Ended("raised", "RuntimeError", <<>>)

\* pg_rollback (lines 210-213)
PgRollback ==
    /\ Command("pg_rollback", NoArg)
    /\ NoQuery
    /\ ret' = NoRet
    /\ IF dbconn = "None" THEN NeedToConnect /\ UNCHANGED txn
       ELSE Ended("returned", "", <<Call("rollback", wait_callback)>>) /\ txn' = "idle"
    /\ UNCHANGED <<dbconn, wait_callback, _preped_stmts, session, bound>>

\* pg_commit (lines 215-218); the commit of a failed transaction is answered
\* with a rollback by the server and is no error
PgCommit ==
    /\ Command("pg_commit", NoArg)
    /\ NoQuery
    /\ ret' = NoRet
    /\ IF dbconn = "None" THEN NeedToConnect /\ UNCHANGED txn
       ELSE Ended("returned", "", <<Call("commit", wait_callback)>>) /\ txn' = "idle"
    /\ UNCHANGED <<dbconn, wait_callback, _preped_stmts, session, bound>>

\* pg_cursor (lines 220-223)
PgCursor ==
    /\ Command("pg_cursor", NoArg)
    /\ NoQuery
    /\ IF dbconn = "None" THEN NeedToConnect /\ ret' = NoRet
       ELSE /\ Ended("returned", "", <<Call("cursor", wait_callback)>>)
            /\ ret' = [kind |-> "cursor", ints |-> <<>>]
    /\ UNCHANGED <<dbconn, wait_callback, txn, _preped_stmts, session, bound>>

\* pg_connection (lines 225-228)
PgConnection ==
    /\ Command("pg_connection", NoArg)
    /\ NoQuery
    /\ IF dbconn = "None" THEN NeedToConnect /\ ret' = NoRet
       ELSE /\ Ended("returned", "", <<>>)
            /\ ret' = [kind |-> "connection", ints |-> <<>>]
    /\ UNCHANGED <<dbconn, wait_callback, txn, _preped_stmts, session, bound>>

\* pg_sql as a line magic (lines 340-349) with a statement that holds no
\* placeholder: query(query) and the cursor is returned
PgSql ==
    /\ Command("pg_sql", NoArg)
    /\ txt' = PiecePlain
    /\ res' = QuerySubst(txt', scope)
    /\ QueryRun(res', NoOpts)
    /\ ret' = IF outcome' = "returned" THEN [kind |-> "cursor", ints |-> <<>>] ELSE NoRet
    /\ UNCHANGED <<dbconn, wait_callback, _preped_stmts, session, bound>>

\* pg_info (lines 550-574).  catch_errors (lines 230-237) takes every
\* Exception of the block, writes it to the shell and calls
\* self.dbconn.rollback(): with self.dbconn None that call raises the
\* AttributeError of None.  After a caught error display_cur_as_table gets a
\* cursor with row count -1 and returns None.
PgInfo ==
    /\ Command("pg_info", NoArg)
    /\ NoQuery
    /\ ret' = NoRet
    /\ IF dbconn = "None"
       THEN Ended("raised", "AttributeError", <<>>) /\ UNCHANGED txn
       ELSE \E answer \in AnswersIn(txn) :
               IF answer = "error"
               THEN /\ Ended("returned", "written: psycopg2.Error",
                             CallsOf(<<"cursor", "execute failed", "rollback">>, wait_callback))
                    /\ txn' = "idle"
               ELSE /\ Ended("returned", "", CallsOf(<<"cursor", "execute">>, wait_callback))
                    /\ txn' = "intrans"
    /\ UNCHANGED <<dbconn, wait_callback, _preped_stmts, session, bound>>

\* copy_pandas_dataframe(cur, dta, target, chunk=10000), line 699: the
\* default of chunk
DefaultChunk == 10000

Min(a, b) == IF a < b THEN a ELSE b

\* lines 721-728: for i in range(0, n, chunk): j = min(i + chunk, n);
\* one copy_expert call for dta.iloc[i:j]
RECURSIVE ChunksFrom(_, _, _)
ChunksFrom(i, n, chunk) ==
    IF i >= n THEN <<>>
    ELSE <<[lo |-> i, hi |-> Min(i + chunk, n)]>> \o ChunksFrom(i + chunk, n, chunk)

\* line 616: copy_pandas_dataframe(cur, dta, ns.target) - ns.chunksize is
\* not handed on, chunk keeps its default
CopyChunks(a) == ChunksFrom(0, a.nrows, DefaultChunk)

\* the pg_copy command lines of the model
CopyArgs ==
    {[NoArg EXCEPT !.dataframe = df, !.nrows = n, !.chunksize = c,
                   !.failat = f, !.commits = k] :
        df \in BOOLEAN, n \in 0..MaxRows, c \in 0..MaxRows,
        f \in 0..MaxRows, k \in BOOLEAN}

\* lines 608-613: the wait callback while pg_copy works
DuringCopy == IF green_mode THEN "None" ELSE wait_callback

\* AfterCopy without the finally clause: the monitor comes back only when the
\* upload went through
AfterCopy_NoFinally(failed) ==
    IF green_mode THEN (IF failed THEN "None" ELSE "wait_select") ELSE wait_callback

\* lines 621-624: the wait callback when pg_copy is left
AfterCopy(failed) ==
    IF green_mode THEN "wait_select" ELSE wait_callback

\* the copy_expert calls 1..n of chunks, all successful
CopyCalls(chunks, n) ==
    [k \in 1..n |-> CopyCall("copy", DuringCopy, chunks[k].lo, chunks[k].hi)]

\* pg_copy (lines 577-624) for a source that evaluates to a.dataframe with
\* a.nrows rows.  With no connection pg_cursor raises inside the try, the
\* except clause calls self.dbconn.rollback() on None, and that
\* AttributeError leaves pg_copy through the finally clause.
PgCopy ==
    \E a \in CopyArgs :
        LET chunks == CopyChunks(a)
            cb == DuringCopy
        IN
        /\ a.failat <= Len(chunks)
        /\ (txn = "inerror" /\ chunks # <<>>) => a.failat = 1
        /\ ~a.dataframe => (a.nrows = 0 /\ a.failat = 0 /\ ~a.commits)
        /\ Command("pg_copy", a)
        /\ NoQuery
        /\ ret' = NoRet
        /\ IF ~a.dataframe
           THEN /\ Ended("raised", "NotImplementedError", <<>>)
                /\ UNCHANGED <<wait_callback, txn>>
           ELSE IF dbconn = "None"
           THEN /\ Ended("raised", "AttributeError", <<>>)
                /\ wait_callback' = AfterCopy(TRUE)
                /\ UNCHANGED txn
           ELSE IF a.failat > 0
           THEN /\ Ended("raised", "psycopg2.Error",
                         <<Call("cursor", cb)>> \o CopyCalls(chunks, a.failat - 1)
                         \o <<CopyCall("copy failed", cb, chunks[a.failat].lo, chunks[a.failat].hi),
                              Call("rollback", cb)>>)
                /\ wait_callback' = AfterCopy(TRUE)
                /\ txn' = "idle"
           ELSE IF a.commits
           THEN /\ Ended("returned", "",
                         <<Call("cursor", cb)>> \o CopyCalls(chunks, Len(chunks))
                         \o <<Call("commit", cb)>>)
                /\ wait_callback' = AfterCopy(FALSE)
                /\ txn' = "idle"
           ELSE /\ Ended("raised", "psycopg2.Error",
                         <<Call("cursor", cb)>> \o CopyCalls(chunks, Len(chunks))
                         \o <<Call("commit failed", cb), Call("rollback", cb)>>)
                /\ wait_callback' = AfterCopy(TRUE)
                /\ txn' = "idle"
        /\ UNCHANGED <<dbconn, _preped_stmts, session, bound>>

\* name in list
InList(list, name) == \E k \in 1..Len(list) : list[k] = name

\* RemoveFirst that leaves the list as it is
RemoveFirst_KeepsName(list, name) == list

\* list.remove(name): the first occurrence goes
RemoveFirst(list, name) ==
    LET k == CHOOSE i \in 1..Len(list) : list[i] = name /\ \A j \in 1..(i - 1) : list[j] # name
    IN SubSeq(list, 1, k - 1) \o SubSeq(list, k + 1, Len(list))

\* the pg_prepare cells of the model
PrepareArgs ==
    {[NoArg EXCEPT !.name = n, !.valid = v, !.nargs = k] :
        n \in Names, v \in BOOLEAN, k \in 0..1}

\* pg_prepare (lines 627-697).  Both statements go through
\* query(..., silent=True, propagate=True): no connection raises the
\* RuntimeError, a psycopg2.Error is rolled back and raised.  The server
\* deallocates a name its session holds and prepares a valid text under a
\* name its session does not hold; neither is undone by a rollback.  Line 670
\* takes max() of the $n of the cell and raises ValueError when there is none.
PgPrepare ==
    \E a \in PrepareArgs :
        LET cb == wait_callback
            redefined == InList(_preped_stmts, a.name)
            list1 == IF redefined THEN RemoveFirst(_preped_stmts, a.name) ELSE _preped_stmts
            deallocated == redefined /\ a.name \in session /\ txn # "inerror"
            calls1 == IF redefined
                      THEN QueryCalls("deallocate", <<"cursor", "execute">>, cb) ELSE <<>>
            session1 == IF deallocated THEN session \ {a.name} ELSE session
            txn1 == IF redefined THEN "intrans" ELSE txn
            prepared == a.valid /\ a.name \notin session1 /\ txn1 # "inerror"
            list2 == IF InList(list1, a.name) THEN list1 ELSE Append(list1, a.name)
        IN
        /\ Command("pg_prepare", a)
        /\ NoQuery
        /\ ret' = NoRet
        /\ IF dbconn = "None"
           THEN /\ NeedToConnect
                /\ _preped_stmts' = list1
                /\ UNCHANGED <<txn, session, bound>>
           ELSE IF redefined /\ ~deallocated
           THEN /\ Ended("raised", "psycopg2.Error",
                         QueryCalls("deallocate", <<"cursor", "execute failed", "rollback">>, cb))
                /\ _preped_stmts' = list1
                /\ txn' = "idle"
                /\ UNCHANGED <<session, bound>>
           ELSE IF ~prepared
           THEN /\ Ended("raised", "psycopg2.Error",
                         calls1 \o QueryCalls("prepare", <<"cursor", "execute failed", "rollback">>, cb))
                /\ _preped_stmts' = list1
                /\ txn' = "idle"
                /\ session' = session1
                /\ UNCHANGED bound
           ELSE /\ _preped_stmts' = list2
                /\ session' = session1 \cup {a.name}
                /\ txn' = "intrans"
                /\ IF a.nargs = 0
                   THEN /\ Ended("raised", "ValueError",
                                 calls1 \o QueryCalls("prepare", <<"cursor", "execute">>, cb))
                        /\ UNCHANGED bound
                   ELSE /\ Ended("returned", "",
                                 calls1 \o QueryCalls("prepare", <<"cursor", "execute">>, cb))
                        /\ bound' = bound \cup {a.name}
        /\ UNCHANGED <<dbconn, wait_callback>>

\* the calls of the callbacks of the model: a bound name and 0 or 1 values
CallbackArgs ==
    {[NoArg EXCEPT !.name = n, !.given = g] : n \in bound, g \in 0..1}

\* the callback pg_prepare binds (lines 682-694); every callback of the model
\* was made for a cell with $1, so n_args is 1.  The server executes a name
\* its session holds.
CallPrepared ==
    \E a \in CallbackArgs :
        /\ Command("callback", a)
        /\ NoQuery
        /\ IF a.given # 1
           THEN /\ Ended("raised", "ValueError", <<>>)
                /\ ret' = NoRet
                /\ UNCHANGED txn
           ELSE IF dbconn = "None"
           THEN /\ NeedToConnect
                /\ ret' = NoRet
                /\ UNCHANGED txn
           ELSE IF a.name \in session /\ txn # "inerror"
           THEN /\ Ended("returned", "", CallsOf(<<"cursor", "execute">>, wait_callback))
                /\ ret' = [kind |-> "cursor", ints |-> <<>>]
                /\ txn' = "intrans"
           ELSE /\ Ended("raised", "psycopg2.Error",
                         CallsOf(<<"cursor", "execute failed", "rollback">>, wait_callback))
                /\ ret' = NoRet
                /\ txn' = "idle"
        /\ UNCHANGED <<dbconn, wait_callback, _preped_stmts, session, bound>>

-----------------------------------------------------------------------------
(* postgis_integration.get_postgis_version and has_postgis *)

\* texts PostGIS_Version() answers
Versions == {<<"2", ".", "5", " ", "U">>, <<"3", ".", "1", "0">>, <<"1", "0", ".", "2", " ">>}

\* the length of the run of digits of s that starts at index i
RECURSIVE DigitRun(_, _)
DigitRun(s, i) ==
    IF i <= Len(s) /\ s[i] \in Digits THEN 1 + DigitRun(s, i + 1) ELSE 0

\* lines 53-54: re.match("^([0-9]+)\.([0-9]+)", ver) and the tuple of the
\* int of its groups; <<>> when the text does not match
VersionTuple(ver) ==
    LET a == DigitRun(ver, 1)
        b == DigitRun(ver, a + 2)
    IN IF a > 0 /\ a + 1 <= Len(ver) /\ ver[a + 1] = "." /\ b > 0
       THEN <<ToNat(SubSeq(ver, 1, a)), ToNat(SubSeq(ver, a + 2, a + 1 + b))>>
       ELSE <<>>

\* get_postgis_version (lines 37-57) on an open connection in transaction
\* state t: [raised, err, ret].  The statement fails with a ProgrammingError
\* when PostGIS is not there, and the except clause returns False; inside a
\* failed transaction the error is not a ProgrammingError and is raised on.
\* Line 57 comes after a try statement whose every branch returns or raises.
get_postgis_version(a, t) ==
    IF t = "inerror"
    THEN [raised |-> TRUE, err |-> "psycopg2.Error", ret |-> NoRet]
    ELSE IF ~a.available
    THEN [raised |-> FALSE, err |-> "", ret |-> [kind |-> "False", ints |-> <<>>]]
    ELSE IF VersionTuple(a.ver) = <<>>
    THEN [raised |-> TRUE, err |-> "AttributeError", ret |-> NoRet]
    ELSE [raised |-> FALSE, err |-> "", ret |-> [kind |-> "tuple", ints |-> VersionTuple(a.ver)]]

\* has_postgis (lines 27-34)
has_postgis(a, t) ==
    LET r == get_postgis_version(a, t)
    IN IF r.raised /\ r.err = "PostGISnotInstalled"
       THEN [raised |-> FALSE, err |-> "", ret |-> [kind |-> "False", ints |-> <<>>]]
       ELSE IF r.raised THEN r
       ELSE [raised |-> FALSE, err |-> "", ret |-> [kind |-> "True", ints |-> <<>>]]

\* the connections the two functions are called with
PostgisArgs ==
    {[NoArg EXCEPT !.available = av, !.ver = v] : av \in BOOLEAN, v \in Versions}

\* the driver's side of get_postgis_version: a cursor and one statement, with
\* no rollback after its failure
PostgisCall(name, r, a) ==
    /\ Command(name, a)
    /\ NoQuery
    /\ ret' = r.ret
    /\ Ended(IF r.raised THEN "raised" ELSE "returned", r.err,
             CallsOf(<<"cursor", IF a.available /\ txn # "inerror"
                                 THEN "execute" ELSE "execute failed">>, wait_callback))
    /\ txn' = IF a.available /\ txn # "inerror" THEN "intrans" ELSE "inerror"
    /\ UNCHANGED <<dbconn, wait_callback, _preped_stmts, session, bound>>

\* get_postgis_version(conn) with the connection of the instance
GetPostgisVersion ==
    \E a \in PostgisArgs :
        /\ dbconn = "open"
        /\ PostgisCall("get_postgis_version", get_postgis_version(a, txn), a)

\* has_postgis(conn) with the connection of the instance
HasPostgis ==
    \E a \in PostgisArgs :
        /\ dbconn = "open"
        /\ PostgisCall("has_postgis", has_postgis(a, txn), a)

-----------------------------------------------------------------------------
(* The shell with all its commands *)

InitShell ==
    /\ TplIdle
    /\ WaitStart
    /\ dbconn = "None"
    /\ auto_commit \in BOOLEAN
    /\ green_mode \in BOOLEAN
    /\ wait_callback \in {"None", "foreign"}
    /\ txn = "idle"
    /\ NoCommand
    /\ NothingPrepared

NextShell ==
    \/ PgConnect \/ PgDisconnect
    \/ PgRollback \/ PgCommit \/ PgCursor \/ PgConnection
    \/ PgSql \/ PgInfo \/ PgCopy
    \/ PgPrepare \/ CallPrepared
    \/ GetPostgisVersion \/ HasPostgis
    \/ ShellReturn

SpecShell == InitShell /\ [][NextShell]_vars

-----------------------------------------------------------------------------
(* What the claims about the substitution speak of *)

\* the placeholders of a text: the occurrences the pattern matches
Placeholders(t) == FindAll(t)

IsParam(m) == m.fmt = ""

\* the values of the parameter-style placeholders, left to right
ParamValues(t, sc) ==
    LET ps == SelectSeq(Placeholders(t), IsParam)
    IN  [k \in 1..Len(ps) |-> Ev(sc, ps[k].expr).v]

\* an escaped placeholder: "$" "$" "{" name "}" with nothing escaping the escape
EscapedAt(t, i) ==
    /\ t[i] = "$"
    /\ (i = 1 \/ t[i - 1] # "$")
    /\ \E p \in {PieceX, PieceY} : IsAt(t, p, i + 1)

HasEscaped(t) == \E i \in 1..Len(t) : EscapedAt(t, i)

\* texts made of the given pieces only
RECURSIVE TextsFrom(_, _)
TextsFrom(ps, n) ==
    IF n = 0 THEN {<<>>}
    ELSE LET T == TextsFrom(ps, n - 1) IN T \cup {t \o p : t \in T, p \in ps}

\* number of occurrences of pat in t
Occurrences(t, pat) == Cardinality({i \in 1..Len(t) : IsAt(t, pat, i)})

\* a text has a ${...} occurrence: "$" "{" and a "}" somewhere after it
HasOccurrence(t) ==
    \E i \in 1..Len(t) : /\ IsAt(t, <<"$", "{">>, i)
                         /\ \E j \in (i + 2)..Len(t) : t[j] = "}"

\* t with the placeholder m replaced by rep
ReplaceMatch(t, m, rep) ==
    SubSeq(t, 1, m.at - 1) \o rep \o SubSeq(t, m.end + 1, Len(t))

\* a character no text and no value holds
Sentinel == <<"#">>

\* r is what rp is, with the sentinel replaced by the text spliced
SplicedAt(r, rp, spliced) ==
    /\ rp.ok
    /\ Occurrences(rp.text, Sentinel) = 1
    /\ r.text = Replace(rp.text, Sentinel, spliced)

-----------------------------------------------------------------------------
(* C1 - C6: the substitution *)

\* C1: whenever _python_tpl returns, the bound values are, in number and in
\* left-to-right order, the parameter markers of the rewritten text: as many
\* values as markers, and the values are those of the parameter-style
\* placeholders in text order (also with repeated, formatted and escaped
\* placeholders in the text).  Stated for the values that hold no "%": what
\* a "%" inside a spliced literal does to the markers is C4's matter.
C1_MarkersMatchBoundValues ==
    (tpc = "tpl" /\ res.ok /\ scope.x # ValPct) =>
        /\ MarkerCount(res.text) = Len(res.args)
        /\ res.args = ParamValues(txt, scope)

\* C2: a text with an escaped placeholder, whose other parts are placeholders
\* ${x}, ${y} and plain text, is rewritten without treating the escaped one
\* as a placeholder: as many evaluations and bound values as real
\* placeholders, and the name stays in the output as ${name}.
C2_EscapeTexts == TextsFrom({PieceX, PieceY, PieceDollar, PiecePlain}, MaxPieces)

C2_EscapedKeptLiteral ==
    (tpc \in {"tpl", "subst"} /\ txt \in C2_EscapeTexts /\ HasEscaped(txt)) =>
        /\ res.ok
        /\ res.nev = Len(Placeholders(txt))
        /\ Len(res.args) = Len(Placeholders(txt))
        /\ MarkerCount(res.text) = Len(Placeholders(txt))
        /\ \A p \in {PieceX, PieceY} :
              Occurrences(txt, <<"$">> \o p) > 0 =>
                  /\ Contains(res.text, p)
                  /\ ~Contains(res.text, <<"$">> \o p)

\* C3: a text with no ${...} occurrence comes back unchanged from query's
\* substitution step, with no bound value and no evaluation; and a second
\* application to a rewritten text with no ${...} occurrence changes nothing.
C3_NoPlaceholderUnchanged ==
    /\ (tpc \in {"subst", "again"} /\ ~HasOccurrence(txt)) =>
          res = [ok |-> TRUE, err |-> "", text |-> txt, args |-> <<>>, nev |-> 0]
    /\ (tpc = "again" /\ ~HasOccurrence(res.text)) =>
          res2 = [ok |-> TRUE, err |-> "", text |-> res.text, args |-> <<>>, nev |-> 0]

\* the quoted SQL literal of each value of the model
C4_QuotedLiteral(v) ==
    CASE v = ValA     -> <<"'", "a", "'">>
      [] v = ValB     -> <<"'", "b", "'">>
      [] v = ValDot   -> <<"'", "s", ".", "t", "'">>
      [] v = ValPct   -> <<"'", "o", "'", "'", "%", "s", "'">>
      [] v = ValInt   -> <<"7">>
      [] v = ValList  -> <<"A", "R", "R", "A", "Y", "[", "'", "s", "'", ",", "'", "t", "'", "]">>
      [] v = ValListI -> <<"A", "R", "R", "A", "Y", "[", "1", "]">>

\* C4: for every placeholder ${x:s} of a text _python_tpl rewrites, the
\* result is the result for the text with a mark in the placeholder's place,
\* with the quoted literal of x at the mark: the same bound values and the
\* same number of parameter markers.
C4_LiteralSplicedNoMarker ==
    (tpc = "tpl" /\ res.ok) =>
        \A k \in 1..Len(Placeholders(txt)) :
            LET m == Placeholders(txt)[k]
                rp == _python_tpl(ReplaceMatch(txt, m, Sentinel), scope)
            IN  m.fmt = "s" =>
                    /\ SplicedAt(res, rp, C4_QuotedLiteral(Ev(scope, m.expr).v))
                    /\ res.args = rp.args
                    /\ MarkerCount(res.text) = MarkerCount(rp.text)

\* the quoted, dot-joined identifier of each value of the model that is a
\* str or a list of str
C5_QuotedIdentifier(v) ==
    CASE v = ValA    -> <<"\"", "a", "\"">>
      [] v = ValB    -> <<"\"", "b", "\"">>
      [] v = ValDot  -> <<"\"", "s", "\"", ".", "\"", "t", "\"">>
      [] v = ValPct  -> <<"\"", "o", "'", "%", "s", "\"">>
      [] v = ValList -> <<"\"", "s", "\"", ".", "\"", "t", "\"">>

C5_IdentifierValues == {ValA, ValB, ValDot, ValPct, ValList}

\* C5: for every placeholder ${x:i}: when x is a str or a list of str and
\* _python_tpl returns, the result is the result for the text with a mark in
\* the placeholder's place, with the separately quoted, dot-joined components
\* at the mark and the same bound values; when x is anything else nothing is
\* returned, and the error is the type error when no earlier placeholder
\* failed.
C5_IdentifierQuotedPerComponent ==
    tpc = "tpl" =>
        \A k \in 1..Len(Placeholders(txt)) :
            LET m == Placeholders(txt)[k]
                v == Ev(scope, m.expr).v
                rp == _python_tpl(ReplaceMatch(txt, m, Sentinel), scope)
            IN  (m.fmt = "i" /\ Ev(scope, m.expr).ok) =>
                    IF v \in C5_IdentifierValues
                    THEN res.ok =>
                            /\ SplicedAt(res, rp, C5_QuotedIdentifier(v))
                            /\ res.args = rp.args
                    ELSE /\ ~res.ok
                         /\ (\A h \in 1..(k - 1) : Ev(scope, Placeholders(txt)[h].expr).ok)
                                => (res.err = "TypeError" /\ res.nev <= k)

C5_Witness ==
    /\ tpc = "tpl"
    /\ res.ok
    /\ scope.x = ValDot
    /\ txt = PieceY \o PieceXi \o PieceX
    /\ res.text = <<"%", "s", "\"", "s", "\"", ".", "\"", "t", "\"", "%", "s">>
    /\ res.args = <<scope.y, ValDot>>

\* texts of ${d[1:2]}, ${x}, ${y} and plain text
C6_SliceTexts == TextsFrom({PieceSlice, PieceX, PieceY, PiecePlain}, MaxPieces)

\* C6 as stated: ${d[1:2]} is a placeholder and becomes a query parameter:
\* the text is rewritten, with one marker and one bound value for each of
\* ${d[1:2]}, ${x} and ${y}.
C6_ColonExprIsParameter ==
    (tpc = "tpl" /\ txt \in C6_SliceTexts /\ Contains(txt, PieceSlice)) =>
        /\ res.ok
        /\ Len(res.args) = Len(Placeholders(txt)) + Occurrences(txt, PieceSlice)
        /\ MarkerCount(res.text) = Len(res.args)

\* C6, amended: ${d[1:2]} is not recognised as a placeholder: no match of the
\* pattern covers it, its expression is not evaluated (only ${x} and ${y}
\* are), and _python_tpl raises the KeyError of SQL.format for the braces
\* left in the text, so that no statement and no bound value is produced.
C6_ColonExprNotRecognised ==
    (tpc = "tpl" /\ txt \in C6_SliceTexts /\ Contains(txt, PieceSlice)) =>
        /\ \A k \in 1..Len(Placeholders(txt)) :
              Placeholders(txt)[k].expr \in {<<"x">>, <<"y">>}
        /\ ~res.ok
        /\ res.err = "KeyError"
        /\ res.nev = Occurrences(txt, PieceX) + Occurrences(txt, PieceY)
        /\ res.args = <<>>

C6_Witness ==
    /\ tpc = "tpl"
    /\ txt = PieceX \o PiecePlain \o PieceSlice
    /\ res.err = "KeyError"
    /\ res.nev = 1

-----------------------------------------------------------------------------
(* C7: a failed substitution sends nothing *)

\* the errors the substitution raises
SubstErrors == {"EvalError", "TypeError", "ValueError", "KeyError", "IndexError"}

\* C7: when the substitution of a query() fails - the text holds a
\* placeholder of the unknown name z or of the unsupported format q, or any
\* other failure of the substitution step - query() raises that error and
\* has made no driver call: no cursor, no execute, no commit, no rollback.
C7_SubstFailureSendsNothing ==
    (/\ tpc = "done"
     /\ \/ Contains(txt, PieceZ)
        \/ Contains(txt, PieceXq)
        \/ res.err \in SubstErrors)
    => /\ outcome = "raised"
       /\ err \in SubstErrors
       /\ err = res.err
       /\ calls = <<>>

C7_Witness ==
    /\ tpc = "done"
    /\ dbconn = "open"
    /\ txt = PieceX \o PieceZ
    /\ res.nev = 2
    /\ outcome = "raised"
    /\ err = "EvalError"
    /\ calls = <<>>

-----------------------------------------------------------------------------
(* green_mode.wait_select *)

\* The number of polls of one wait_select that the model follows.
MaxPolls == 4

\* psycopg2.extensions.POLL_OK, POLL_READ, POLL_WRITE and two states that
\* are none of them
PollStates == {"OK", "READ", "WRITE", "BAD", "OTHER"}

\* the states the branches of lines 28-33 do not know
BadStates == PollStates \ {"OK", "READ", "WRITE"}

\* lines 35-36: conn.OperationalError("bad state from poll: %s" % state)
BadStateError(state) ==
    IF state = "BAD" THEN "OperationalError: bad state from poll: BAD"
    ELSE "OperationalError: bad state from poll: OTHER"

InitWait ==
    /\ TplIdle
    /\ CmdStart
    /\ WaitStart

\* WaitFor that waits for readability in either state
WaitFor_AlwaysRead(state) == "wait_read"

\* lines 30-33: the wait of a poll state
WaitFor(state) == IF state = "READ" THEN "wait_read" ELSE "wait_write"

\* AfterPoll that polls again when the state is not a known one
AfterPoll_BadStatePollsAgain(state) ==
    IF state = "OK" THEN "returned"
    ELSE IF state \in {"READ", "WRITE"} THEN WaitFor(state)
    ELSE "poll"

\* lines 28-36: where wait_select goes after poll() reported state
AfterPoll(state) ==
    IF state = "OK" THEN "returned"
    ELSE IF state \in {"READ", "WRITE"} THEN WaitFor(state)
    ELSE "raised"

\* The model follows MaxPolls polls that leave the operation under way
\* (needs-read, needs-write, interrupted); the poll after them ends it.
PollAnswers == IF Len(polls) < MaxPolls THEN PollStates ELSE PollStates \ {"READ", "WRITE"}

\* lines 27-36: conn.poll() reports a state
Poll ==
    /\ wpc = "poll"
    /\ \E state \in PollAnswers :
          /\ polls' = Append(polls, state)
          /\ lastev' = "poll"
          /\ wpc' = AfterPoll(state)
          /\ werr' = IF state \in BadStates THEN BadStateError(state) ELSE ""
    /\ UNCHANGED <<waits, ncancel, intr, tplvars, cmdvars>>

\* line 27: conn.poll() raises an error of the driver (a lost connection, a
\* failure of the protocol); only KeyboardInterrupt is caught
PollRaises ==
    /\ wpc = "poll"
    /\ polls' = Append(polls, "error")
    /\ lastev' = "poll"
    /\ wpc' = "raised"
    /\ werr' = "poll error"
    /\ UNCHANGED <<waits, ncancel, intr, tplvars, cmdvars>>

\* OnInterrupt of a loop with no except clause: the interrupt leaves wait_select
OnInterrupt_Escapes == [pc |-> "raised", err |-> "KeyboardInterrupt"]

\* line 37: a KeyboardInterrupt raised in the try block is caught and the
\* except clause goes on to conn.cancel()
OnInterrupt == [pc |-> "cancel", err |-> ""]

\* line 27 and line 37: a KeyboardInterrupt while conn.poll() runs
PollInterrupted ==
    /\ wpc = "poll"
    /\ Len(polls) < MaxPolls
    /\ polls' = Append(polls, "interrupted")
    /\ intr' = [intr EXCEPT !.poll = @ + 1]
    /\ lastev' = "interrupt"
    /\ wpc' = OnInterrupt.pc
    /\ werr' = OnInterrupt.err
    /\ UNCHANGED <<waits, ncancel, tplvars, cmdvars>>

\* lines 31 and 33: select() with the timeout _WAIT_SELECT_TIMEOUT ends
\* because the channel is ready or because the time is over; either way the
\* loop polls again
Wait ==
    /\ wpc \in {"wait_read", "wait_write"}
    /\ waits' = Append(waits, IF wpc = "wait_read" THEN "read" ELSE "write")
    /\ \E how \in {"ready", "timeout"} : lastev' = how
    /\ wpc' = "poll"
    /\ UNCHANGED <<polls, ncancel, intr, werr, tplvars, cmdvars>>

\* lines 31, 33 and 37: a KeyboardInterrupt during select()
WaitInterrupted ==
    /\ wpc \in {"wait_read", "wait_write"}
    /\ waits' = Append(waits, IF wpc = "wait_read" THEN "read" ELSE "write")
    /\ intr' = [intr EXCEPT !.wait = @ + 1]
    /\ lastev' = "interrupt"
    /\ wpc' = OnInterrupt.pc
    /\ werr' = OnInterrupt.err
    /\ UNCHANGED <<polls, ncancel, tplvars, cmdvars>>

\* lines 38-40: conn.cancel() returns and the loop continues
Cancel ==
    /\ wpc = "cancel"
    /\ ncancel' = ncancel + 1
    /\ lastev' = "cancel"
    /\ wpc' = "poll"
    /\ UNCHANGED <<polls, waits, intr, werr, tplvars, cmdvars>>

\* line 38: conn.cancel() raises; the except clause has no handler of its own
CancelRaises ==
    /\ wpc = "cancel"
    /\ ncancel' = ncancel + 1
    /\ lastev' = "cancel error"
    /\ wpc' = "raised"
    /\ werr' = "cancel error"
    /\ UNCHANGED <<polls, waits, intr, tplvars, cmdvars>>

\* line 38: a second KeyboardInterrupt, inside the except clause
CancelInterrupted ==
    /\ wpc = "cancel"
    /\ ncancel' = ncancel + 1
    /\ intr' = [intr EXCEPT !.cancel = @ + 1]
    /\ lastev' = "interrupt"
    /\ wpc' = "raised"
    /\ werr' = "KeyboardInterrupt"
    /\ UNCHANGED <<polls, waits, tplvars, cmdvars>>

NextWait ==
    \/ Poll \/ PollRaises \/ PollInterrupted
    \/ Wait \/ WaitInterrupted
    \/ Cancel \/ CancelRaises \/ CancelInterrupted

SpecWait == InitWait /\ [][NextWait]_vars

\* The loop keeps running: a poll that is called answers, a select ends at the
\* latest when _WAIT_SELECT_TIMEOUT (line 17) is over, a cancel call comes
\* back.  Nothing obliges an interrupt to happen.
WaitFairness ==
    /\ WF_vars(Poll \/ PollRaises)
    /\ WF_vars(Wait)
    /\ WF_vars(Cancel \/ CancelRaises)

SpecWaitLive == InitWait /\ [][NextWait]_vars /\ WaitFairness

-----------------------------------------------------------------------------
(* C8 - C10: wait_select *)

NoInterrupt == intr = [wait |-> 0, poll |-> 0, cancel |-> 0]

\* the wait each polled state asks for
C8_WaitOf(state) == IF state = "READ" THEN "read" ELSE "write"

\* C8: without an interrupt, wait_select has made one readiness wait for each
\* needs-read / needs-write state polled so far and of that state's kind (the
\* last one may still be to come), has never called cancel, has returned
\* exactly when the last state polled is complete, and has then made exactly
\* as many waits as states polled before the complete one.
C8_WaitsFollowPolls ==
    NoInterrupt =>
        /\ ncancel = 0
        /\ \A k \in 1..Len(waits) : k <= Len(polls) /\ waits[k] = C8_WaitOf(polls[k])
        /\ (wpc = "returned") <=> (polls # <<>> /\ polls[Len(polls)] = "OK")
        /\ wpc = "returned" =>
              /\ Len(waits) = Len(polls) - 1
              /\ \A k \in 1..Len(waits) : polls[k] \in {"READ", "WRITE"}
        /\ wpc = "poll" => Len(waits) = Len(polls)
        /\ wpc \in {"wait_read", "wait_write"} => Len(waits) = Len(polls) - 1

C8_Witness ==
    /\ NoInterrupt
    /\ wpc = "returned"
    /\ polls = <<"READ", "READ", "OK">>
    /\ waits = <<"read", "read">>
    /\ ncancel = 0

\* C9: when every interrupt so far came during a readiness wait: one cancel
\* request was made for each of them (the one for the last is made in the
\* cancel step), the interrupt did not end the loop, and wait_select has
\* raised only for a bad poll state or an error of poll, and returned only
\* after a poll that reported complete.
C9_InterruptCancelsAndLoopGoesOn ==
    (intr.poll = 0 /\ intr.cancel = 0) =>
        /\ ncancel = (IF wpc = "cancel" THEN intr.wait - 1 ELSE intr.wait)
        /\ wpc = "raised" =>
              /\ werr \in {BadStateError(state) : state \in BadStates} \cup {"poll error"}
              /\ lastev = "poll"
        /\ wpc = "returned" => polls[Len(polls)] = "OK"

\* C10: an error raised by conn.cancel() never reaches the caller of
\* wait_select: after it the loop is at its next poll.
C10_CancelErrorSwallowed ==
    /\ werr # "cancel error"
    /\ lastev = "cancel error" => wpc = "poll"

-----------------------------------------------------------------------------
(* C11: an unknown poll state *)

\* C11: a poll state that is not complete, needs-read or needs-write is the
\* last thing wait_select sees: it has raised the operational error that
\* names that state, the poll that reported it is the last step made (no
\* poll, wait or cancel follows), and the waits and cancels made are those
\* of the polls before it.
C11_BadStateRaises ==
    \A k \in 1..Len(polls) :
        polls[k] \in BadStates =>
            /\ k = Len(polls)
            /\ wpc = "raised"
            /\ werr = BadStateError(polls[k])
            /\ lastev = "poll"
            /\ Len(waits) <= k - 1
            /\ ncancel <= k - 1

C11_Witness ==
    /\ polls = <<"READ", "OTHER">>
    /\ waits = <<"read">>
    /\ ncancel = 0
    /\ wpc = "raised"
    /\ werr = BadStateError("OTHER")

-----------------------------------------------------------------------------
(* C12: the end of the loop *)

\* wait_select is over
WaitEnded == wpc \in {"returned", "raised"}

\* the liveness half of C12 alone: wait_select returns or raises
C12_EventuallyEnds == <>WaitEnded

\* C12: with a poll that reports complete or raises after at most MaxPolls
\* other answers, wait_select eventually returns or raises whatever the
\* readiness, the timeouts and the interrupts are, and the step that ends
\* the loop is always a poll: never a timeout, an interrupt or a cancel.
C12_EndsAndOnlyByPoll ==
    /\ <>WaitEnded
    /\ [](WaitEnded => lastev = "poll")

-----------------------------------------------------------------------------
(* C13 - C14: the wait callback *)

\* the copy_expert calls among the calls of the command
IsCopyCall(c) == c.op \in {"copy", "copy failed"}

\* C13: when a pg_copy of an instance with green mode has ended - with the
\* commit, with a failed upload that was rolled back and raised, or because
\* there is no connection to get a cursor from - every copy call it made ran
\* with the wait callback None, and the wait callback is the monitor again.
C13_CopyUnmonitoredThenRestored ==
    (tpc = "done" /\ cmd = "pg_copy" /\ green_mode /\ arg.dataframe) =>
        /\ \A k \in 1..Len(calls) : IsCopyCall(calls[k]) => calls[k].cb = "None"
        /\ wait_callback = "wait_select"
        /\ \/ outcome = "returned" /\ calls[Len(calls)].op = "commit"
           \/ outcome = "raised" /\ err = "psycopg2.Error" /\ calls[Len(calls)].op = "rollback"
           \/ outcome = "raised" /\ dbconn = "None" /\ calls = <<>>

\* a failed upload: the copy call fails, the rollback follows, the monitor is back
C13_Witness ==
    /\ tpc = "done"
    /\ cmd = "pg_copy"
    /\ green_mode
    /\ arg.nrows = MaxRows
    /\ outcome = "raised"
    /\ Len(calls) = 3
    /\ calls[2].op = "copy failed"
    /\ calls[2].cb = "None"
    /\ calls[3].op = "rollback"
    /\ wait_callback = "wait_select"

\* a statement handed to cursor.execute
IsExecute(c) == c.op \in {"execute", "execute failed", "execute refused"}

\* C14: on an instance with green mode every statement that query() (pg_sql,
\* pg_prepare) or a prepared-statement callback executes runs with the
\* monitor as the wait callback; every pg_connect, failed ones too, leaves
\* the monitor installed, and no later command (pg_disconnect and pg_copy
\* among them) leaves it uninstalled.  On an instance without green mode no
\* command changes the wait callback.
C14_MonitorInstalled ==
    /\ [](green_mode =>
            \A k \in 1..Len(calls) :
                (IsExecute(calls[k]) /\ cmd \in {"pg_sql", "pg_prepare", "callback"})
                => calls[k].cb = "wait_select")
    /\ [][(green_mode /\ cmd' = "pg_connect") => wait_callback' = "wait_select"]_vars
    /\ [][(green_mode /\ wait_callback = "wait_select") => wait_callback' = "wait_select"]_vars
    /\ [][~green_mode => wait_callback' = wait_callback]_vars

\* a prepared-statement callback has executed its statement under the monitor
C14_Witness ==
    /\ tpc = "done"
    /\ cmd = "callback"
    /\ green_mode
    /\ calls # <<>>
    /\ calls[Len(calls)].op = "execute"
    /\ calls[Len(calls)].cb = "wait_select"

-----------------------------------------------------------------------------
(* C15: a driver error is rolled back *)

\* a call the driver answered with an error after the statement was sent
IsFailed(c) == c.op \in {"execute failed", "copy failed", "commit failed"}

\* the commands C15 is about: query() (pg_sql, pg_prepare), a callback,
\* pg_info and pg_copy
C15_Commands == {"pg_sql", "pg_prepare", "callback", "pg_info", "pg_copy"}

\* C15: in each of these commands a call the driver answered with an error
\* is followed at once by the rollback, which is the last call of the
\* command (nothing is sent in between, nothing is sent again); the error is
\* raised to the caller or written to the shell, and the command leaves the
\* connection outside a failed transaction.
C15_ErrorRolledBack ==
    (cmd \in C15_Commands /\ tpc = "done") =>
        \A k \in 1..Len(calls) :
            IsFailed(calls[k]) =>
                /\ Len(calls) = k + 1
                /\ calls[k + 1].op = "rollback"
                /\ \A j \in 1..(k - 1) : ~IsFailed(calls[j])
                /\ err \in {"psycopg2.Error", "written: psycopg2.Error"}
                /\ (outcome = "raised") <=> (err = "psycopg2.Error")
                /\ txn = "idle"

\* pg_sql: the statement failed, the error was written and rolled back
C15_Witness ==
    /\ tpc = "done"
    /\ cmd = "pg_sql"
    /\ Len(calls) = 3
    /\ calls[2].op = "execute failed"
    /\ calls[3].op = "rollback"
    /\ outcome = "returned"
    /\ err = "written: psycopg2.Error"
    /\ txn = "idle"

-----------------------------------------------------------------------------
(* A query under the monitor: query() and wait_select together *)

\* wait_select is not running
WaitOff ==
    /\ wpc = "off"
    /\ polls = <<>>
    /\ waits = <<>>
    /\ ncancel = 0
    /\ intr = [wait |-> 0, poll |-> 0, cancel |-> 0]
    /\ lastev = "start"
    /\ werr = ""

\* an instance with green mode, connected by pg_connect (lines 125-127 and
\* 157-158): the monitor is the wait callback
InitGreen ==
    /\ TplIdle
    /\ WaitOff
    /\ dbconn = "open"
    /\ auto_commit \in BOOLEAN
    /\ green_mode = TRUE
    /\ wait_callback = "wait_select"
    /\ txn \in {"idle", "intrans"}
    /\ NoCommand
    /\ NothingPrepared

\* pg_sql with a statement that holds no placeholder: query() gets a cursor
\* (line 292) and execute (line 293) sends the statement; the driver then
\* calls the wait callback, and wait_select starts polling
GreenExecute ==
    /\ tpc = "idle"
    /\ tpc' = "exec"
    /\ cmd' = "pg_sql"
    /\ txt' = PiecePlain
    /\ res' = QuerySubst(txt', scope)
    /\ wpc' = "poll"
    /\ UNCHANGED <<scope, res2, polls, waits, ncancel, intr, lastev, werr, cmdvars_but_cmd>>

\* the states the connection can be in after the wait callback raised while
\* a statement was under way: the driver may have closed it
AfterCallbackRaised == {"closed", "intrans", "inerror"}

\* wait_select is over and execute goes on.  When it returned, the result of
\* the statement is there and query() continues as without the monitor: a
\* cancelled statement is answered with the server's error.  When it raised
\* a KeyboardInterrupt, that is no psycopg2.Error and leaves execute and
\* query() (line 296 does not catch it).  When it raised an error of the
\* driver, the handler of lines 296-300 calls rollback, which fails when the
\* driver has closed the connection.
GreenQueryEnds ==
    /\ tpc = "exec"
    /\ wpc \in {"returned", "raised"}
    /\ tpc' = "done"
    /\ ret' = NoRet
    /\ IF wpc = "returned"
       THEN QueryRun(res, opts)
       ELSE IF werr = "KeyboardInterrupt"
       THEN /\ Ended("raised", "KeyboardInterrupt",
                     CallsOf(<<"cursor", "execute interrupted">>, wait_callback))
            /\ txn' \in AfterCallbackRaised
            /\ rowcount' = "none"
       ELSE \E t \in AfterCallbackRaised :
               IF t = "closed"
               THEN /\ Ended("raised", "psycopg2.Error",
                             CallsOf(<<"cursor", "execute failed", "rollback failed">>, wait_callback))
                    /\ After("closed", "none")
               ELSE /\ Ended("returned", Surfaced(opts),
                             CallsOf(RolledBack(<<"cursor", "execute failed">>), wait_callback))
                    /\ After("idle", "none")
    /\ UNCHANGED <<txt, scope, res, res2, waitvars, dbconn, auto_commit, opts,
                   green_mode, wait_callback, cmd, arg, _preped_stmts, session, bound>>

\* the next pg_sql on the same connection, with no pg_rollback in between.
\* On a connection the driver has closed cursor() fails and so does the
\* rollback of lines 296-298.
NextPgSql ==
    /\ tpc = "done"
    /\ tpc' = "next"
    /\ ret' = NoRet
    /\ IF txn = "closed"
       THEN /\ Ended("raised", "psycopg2.Error",
                     CallsOf(<<"cursor failed", "rollback failed">>, wait_callback))
            /\ After("closed", "none")
       ELSE QueryRun(res, opts)
    /\ UNCHANGED <<txt, scope, res, res2, waitvars, dbconn, auto_commit, opts,
                   green_mode, wait_callback, cmd, arg, _preped_stmts, session, bound>>

NextGreen ==
    \/ GreenExecute
    \/ Poll \/ PollRaises \/ PollInterrupted
    \/ Wait \/ WaitInterrupted
    \/ Cancel \/ CancelRaises \/ CancelInterrupted
    \/ GreenQueryEnds
    \/ NextPgSql

SpecGreen == InitGreen /\ [][NextGreen]_vars

-----------------------------------------------------------------------------
(* C16: a query aborted from the keyboard *)

\* interrupts arrived while wait_select polled or waited, and only there
InterruptedInLoop == intr.poll + intr.wait >= 1 /\ intr.cancel = 0

-----------------------------------------------------------------------------
(* C17: commands without a connection *)

\* the commands that need the database
C17_Commands ==
    {"pg_rollback", "pg_commit", "pg_cursor", "pg_connection", "pg_sql", "pg_info", "pg_copy"}

\* C17: a command that needs the database and is given while there is no
\* connection (pg_copy: with a DataFrame to upload) has raised the
\* RuntimeError of _dbconn and made no driver call; after pg_disconnect
\* there is no connection, and its only driver call is the close of a
\* connection that was open.
C17_NeedToConnectFirst ==
    /\ (tpc = "done" /\ dbconn = "None" /\ cmd \in C17_Commands
        /\ (cmd = "pg_copy" => arg.dataframe)) =>
            /\ outcome = "raised"
            /\ err = "RuntimeError"
            /\ calls = <<>>
    /\ (tpc = "done" /\ cmd = "pg_disconnect") =>
            /\ dbconn = "None"
            /\ outcome = "returned"
            /\ Len(calls) <= 1
            /\ \A k \in 1..Len(calls) : calls[k].op = "close"

-----------------------------------------------------------------------------
(* C18: auto_commit *)

\* the commit calls among calls
CommitCount(cs) == Cardinality({k \in 1..Len(cs) : cs[k].op \in {"commit", "commit failed"}})

\* C18: when a query() has ended, it has called commit exactly once if
\* auto_commit is set, the query was not silent and its statement was
\* executed with row count -1, and then as the call right after the execute;
\* in every other case - another row count, a failed statement, a silent
\* query, auto_commit not set - it has called commit not at all.
C18_CommitOnlyForRowCountMinusOne ==
    (tpc = "done" /\ cmd = "query") =>
        /\ CommitCount(calls) =
              (IF auto_commit /\ ~opts.silent /\ rowcount = "rows-1" THEN 1 ELSE 0)
        /\ CommitCount(calls) = 1 =>
              /\ calls[2].op = "execute"
              /\ calls[3].op \in {"commit", "commit failed"}

C18_Witness ==
    /\ tpc = "done"
    /\ cmd = "query"
    /\ auto_commit
    /\ ~opts.silent
    /\ rowcount = "rows-1"
    /\ Len(calls) = 3
    /\ calls[2].op = "execute"
    /\ calls[3].op = "commit"
    /\ outcome = "returned"
    /\ txn = "idle"

-----------------------------------------------------------------------------
(* C19: the chunks of pg_copy *)

\* the copy_expert calls of a pg_copy that went through: all calls between
\* the cursor and the commit
C19_Copies == SubSeq(calls, 2, Len(calls) - 1)

\* C19: a pg_copy that has returned made copy calls of at most --chunksize
\* rows each when the option was given; its copy calls are non-empty, start
\* at row 0, each begins where the one before ended, and the last ends with
\* the last row; the one commit comes after the last of them.
C19_ChunksOfAtMostChunksize ==
    (tpc = "done" /\ cmd = "pg_copy" /\ outcome = "returned") =>
        LET cs == C19_Copies IN
        /\ calls[1].op = "cursor"
        /\ calls[Len(calls)].op = "commit"
        /\ \A k \in 1..Len(cs) :
              /\ cs[k].op = "copy"
              /\ cs[k].lo < cs[k].hi
              /\ cs[k].lo = (IF k = 1 THEN 0 ELSE cs[k - 1].hi)
              /\ arg.chunksize > 0 => cs[k].hi - cs[k].lo <= arg.chunksize
        /\ (IF cs = <<>> THEN 0 ELSE cs[Len(cs)].hi) = arg.nrows

-----------------------------------------------------------------------------
(* C20: the PostGIS version *)

\* C20: called on a connection outside a failed transaction,
\* get_postgis_version has raised PostGISnotInstalled when PostGIS is not
\* available and has otherwise returned a tuple of two integers, and
\* has_postgis has returned False when PostGIS is not available and True
\* when it is.
C20_NotInstalledRaises ==
    /\ (tpc = "done" /\ cmd = "get_postgis_version" /\ err # "psycopg2.Error") =>
            IF arg.available
            THEN outcome = "returned" /\ ret.kind = "tuple" /\ Len(ret.ints) = 2
            ELSE outcome = "raised" /\ err = "PostGISnotInstalled"
    /\ (tpc = "done" /\ cmd = "has_postgis" /\ err # "psycopg2.Error") =>
            /\ outcome = "returned"
            /\ ret.kind = (IF arg.available THEN "True" ELSE "False")

-----------------------------------------------------------------------------
(* C21: the bookkeeping of pg_prepare *)

\* the calls of cs that handed a statement stmt to execute, with their answer
SentOk(cs, stmt) == \E k \in 1..Len(cs) : cs[k].stmt = stmt /\ cs[k].op = "execute"

SentFailed(cs, stmt) == \E k \in 1..Len(cs) : cs[k].stmt = stmt /\ cs[k].op = "execute failed"

Sent(cs, stmt) == SentOk(cs, stmt) \/ SentFailed(cs, stmt)

\* no name is in the list twice
NoDuplicates(list) == \A i, j \in 1..Len(list) : list[i] = list[j] => i = j

\* C21: in every pg_prepare step on an open connection: when the name was
\* recorded, the deallocate is the first statement sent, and the prepare is
\* sent only after it succeeded (and first otherwise); afterwards the name is
\* recorded exactly if the prepare succeeded and the list holds no name
\* twice; and when the deallocate or the prepare failed, the error is
\* raised, the rollback is the last call, the transaction is idle and the
\* step has bound no callback.
C21_DeallocateThenPrepare ==
    [][(cmd' = "pg_prepare" /\ dbconn = "open") =>
        LET n == arg'.name
            cs == calls'
            recorded == InList(_preped_stmts, n)
        IN
        /\ recorded => /\ cs[2].stmt = "deallocate"
                       /\ Sent(cs, "prepare") => (cs[2].op = "execute" /\ cs[4].stmt = "prepare")
        /\ ~recorded => /\ ~Sent(cs, "deallocate")
                        /\ cs[2].stmt = "prepare"
        /\ InList(_preped_stmts', n) <=> SentOk(cs, "prepare")
        /\ NoDuplicates(_preped_stmts')
        /\ (SentFailed(cs, "deallocate") \/ SentFailed(cs, "prepare")) =>
              /\ outcome' = "raised"
              /\ err' = "psycopg2.Error"
              /\ cs[Len(cs)].op = "rollback"
              /\ cs[Len(cs) - 1].op = "execute failed"
              /\ txn' = "idle"
              /\ bound' = bound
    ]_vars

\* a recorded name was prepared again: deallocated, and then the new text was
\* refused, rolled back and raised
C21_Witness ==
    /\ tpc = "done"
    /\ cmd = "pg_prepare"
    /\ Len(calls) = 5
    /\ calls[2].stmt = "deallocate"
    /\ calls[2].op = "execute"
    /\ calls[4].stmt = "prepare"
    /\ calls[4].op = "execute failed"
    /\ calls[5].op = "rollback"
    /\ outcome = "raised"
    /\ ~InList(_preped_stmts, arg.name)
    /\ arg.name \in bound

-----------------------------------------------------------------------------
(* C22: the recorded names and the session *)

\* C22: while a connection is open, every name recorded in
\* self._preped_stmts is a statement prepared in the session of that
\* connection (so that the deallocate of a new pg_prepare for it succeeds).
C22_RecordedNamesExist ==
    dbconn = "open" =>
        \A k \in 1..Len(_preped_stmts) : _preped_stmts[k] \in session

====
